---- MODULE Spec2Model ----
(***************************************************************************)
(* StudyMe (src/app.py): a Gradio application with two handlers, each      *)
(* bound to a button.                                                      *)
(*   generate_all(files, subject_name, exam_instructions)                  *)
(*       extracts the text of the uploaded files, sends one prompt to the  *)
(*       completion service and splits the answer into four sections;      *)
(*   grade_exam(user_answers, exam_text)                                   *)
(*       sends the exam and the answers to the completion service and      *)
(*       returns the feedback.                                             *)
(*                                                                         *)
(* Text is a sequence of atoms.  Wherever the code looks inside a string   *)
(* (replace, split, strip, in, endswith) the atoms are its characters;     *)
(* fixed messages and document contents, which the code only concatenates  *)
(* or passes on, are written as one atom.                                  *)
(***************************************************************************)
EXTENDS Integers, Sequences, FiniteSets, TLC

VARIABLES
    \* the generate_all call in flight or, when none is, the last one
    genPc,              \* "idle" | "waiting" (blocked in the completion call, line 99)
    files,              \* argument: the uploaded documents, in upload order
    subject_name,       \* argument
    exam_instructions,  \* argument
    full_corpus,        \* local (line 56)
    genPrompt,          \* local (line 60): the prompt sent to the completion service
    output,             \* local (line 104): the raw response
    genOutcome,         \* "none" | "returned" | "raised"
    genExc,             \* the exception raised, "none" otherwise
    genReply,           \* what the completion service did with the request
    genCalls,           \* completion-service invocations made by the call
    \* the four output components of generate_all (line 202)
    textbook_box,
    flashcard_box,
    question_box,
    exam_box,
    \* the grade_exam call in flight or, when none is, the last one
    gradePc,            \* "idle" | "waiting" (blocked in the completion call, line 166)
    user_answers,       \* argument
    exam_text,          \* argument: the value of exam_box at the click (line 212)
    gradePrompt,        \* local (line 150)
    gradeOutcome,       \* "none" | "returned" | "raised"
    gradeExc,
    gradeReply,
    gradeCalls,
    \* the output component of grade_exam (line 213)
    grade_output

genVars == <<genPc, files, subject_name, exam_instructions, full_corpus,
             genPrompt, output, genOutcome, genExc, genReply, genCalls>>
genBoxes == <<textbook_box, flashcard_box, question_box, exam_box>>
gradeVars == <<gradePc, user_answers, exam_text, gradePrompt, gradeOutcome,
               gradeExc, gradeReply, gradeCalls>>

vars == <<genVars, genBoxes, gradeVars, grade_output>>

----------------------------------------------------------------------------
(* Bounds *)

\* longest raw response of the segmentation specification, in pieces
MaxPieces == 3
\* longest upload list
MaxFiles == 1

----------------------------------------------------------------------------
(* The heading tokens and their variants (lines 115-133) *)

TokTEXTBOOK == <<"P","R","A","A","C","H","I","-","G","U","I","D","E"," ","T","E","X","T","B","O","O","K">>
TokFLASHCARDS == <<"F","L","A","S","H","C","A","R","D","S">>
VarFlashcards == <<"F","l","a","s","h","c","a","r","d","s">>
TokQUESTIONBANK == <<"Q","U","E","S","T","I","O","N"," ","B","A","N","K">>
VarQuestionBank == <<"Q","u","e","s","t","i","o","n"," ","B","a","n","k">>
TokEXAMTEMPLATE == <<"E","X","A","M"," ","T","E","M","P","L","A","T","E">>
VarExamTemplate == <<"E","x","a","m"," ","T","e","m","p","l","a","t","e">>

\* the characters str.strip() removes, those for which str.isspace() holds:
\* U+0009-U+000D and U+001C-U+0020, each written as the character itself,
\* and U+0085, U+00A0, U+1680 and the spaces and separators from U+2000 on.
\* A character outside ASCII is written by the name of its code point, one
\* atom per character, so that no two characters are the same atom
Whitespace ==
    {"\t", "\n", "\f", "\r", " ", "", "", "", "", "", "U+0085", "U+00A0", "U+1680",
     "U+2000", "U+2001", "U+2002", "U+2003", "U+2004", "U+2005",
     "U+2006", "U+2007", "U+2008", "U+2009", "U+200A", "U+2028",
     "U+2029", "U+202F", "U+205F", "U+3000"}

----------------------------------------------------------------------------
(* Python string operations *)

\* s.find(sub) + 1: the position of the first occurrence of sub in s, 0 if none
Find(s, sub) ==
    LET hits == {i \in 1..(Len(s) - Len(sub) + 1) :
                    /\ s[i] = sub[1]
                    /\ SubSeq(s, i, i + Len(sub) - 1) = sub}
    IN  IF hits = {} THEN 0 ELSE CHOOSE i \in hits : \A j \in hits : i <= j

\* sub in s
Contains(s, sub) == Find(s, sub) # 0

\* s.replace(old, new): every non-overlapping occurrence, left to right
RECURSIVE Replace(_, _, _)
Replace(s, old, new) ==
    LET i == Find(s, old)
    IN  IF i = 0 THEN s
        ELSE SubSeq(s, 1, i - 1) \o new
             \o Replace(SubSeq(s, i + Len(old), Len(s)), old, new)

\* s.rsplit(sep, 1): the split at the last occurrence
SplitLast(s, sep) ==
    LET hits == {i \in 1..(Len(s) - Len(sep) + 1) :
                    SubSeq(s, i, i + Len(sep) - 1) = sep}
        i == CHOOSE k \in hits : \A j \in hits : j <= k
    IN  IF hits = {} THEN <<s>>
        ELSE <<SubSeq(s, 1, i - 1), SubSeq(s, i + Len(sep), Len(s))>>

\* s.split(sep, 1): the list of one or two parts
Split(s, sep) ==
    LET i == Find(s, sep)
    IN  IF i = 0 THEN <<s>>
        ELSE <<SubSeq(s, 1, i - 1), SubSeq(s, i + Len(sep), Len(s))>>

\* s.strip()
Strip(s) ==
    LET keep == {i \in 1..Len(s) : s[i] \notin Whitespace}
    IN  IF keep = {} THEN <<>>
        ELSE SubSeq(s, CHOOSE i \in keep : \A j \in keep : i <= j,
                       CHOOSE i \in keep : \A j \in keep : j <= i)

\* s.endswith(suffix)
EndsWith(s, suffix) ==
    /\ Len(s) >= Len(suffix)
    /\ SubSeq(s, Len(s) - Len(suffix) + 1, Len(s)) = suffix

----------------------------------------------------------------------------
(* Response segmentation: generate_all, lines 109-140 *)

\* line 115
Normalize(s) ==
    Replace(Replace(Replace(s, VarFlashcards, TokFLASHCARDS),
                    VarQuestionBank, TokQUESTIONBANK),
            VarExamTemplate, TokEXAMTEMPLATE)

\* a split whose result is indexed without the membership test
HasMarkerUnguarded(s, tok) == TRUE

\* the conditions of lines 117, 125, 133
HasMarker(s, tok) == Contains(s, tok)

\* parts[k] of a Python list (0-based k): IndexError past the end
InRange(parts, k) == k + 1 <= Len(parts)

\* line 119
StripHeading(s) == Strip(Replace(s, TokTEXTBOOK, <<>>))

\* what lines 109-140 leave: the four fields, or the exception raised
Fields(textbook, flashcards, question_bank, exam) ==
    [exc |-> "none", textbook |-> textbook, flashcards |-> flashcards,
     question_bank |-> question_bank, exam |-> exam]
Raised(e) ==
    [exc |-> e, textbook |-> <<>>, flashcards |-> <<>>,
     question_bank |-> <<>>, exam |-> <<>>]

\* lines 133-140
SegmentExam(textbook, flashcards, rest2) ==
    IF HasMarker(rest2, TokEXAMTEMPLATE)
    THEN IF InRange(Split(rest2, TokEXAMTEMPLATE), 1)
         THEN Fields(textbook, flashcards,
                     Strip(Split(rest2, TokEXAMTEMPLATE)[1]),
                     Strip(Split(rest2, TokEXAMTEMPLATE)[2]))
         ELSE Raised("IndexError")
    ELSE Fields(textbook, flashcards, Strip(rest2), <<>>)

\* lines 125-131, then the rest
SegmentQuestionBank(textbook, rest) ==
    IF HasMarker(rest, TokQUESTIONBANK)
    THEN IF InRange(Split(rest, TokQUESTIONBANK), 1)
         THEN SegmentExam(textbook, Strip(Split(rest, TokQUESTIONBANK)[1]),
                          Split(rest, TokQUESTIONBANK)[2])
         ELSE Raised("IndexError")
    ELSE SegmentExam(textbook, Strip(rest), <<>>)

\* lines 117-123, then the rest
SegmentFlashcards(normalized) ==
    IF HasMarker(normalized, TokFLASHCARDS)
    THEN IF InRange(Split(normalized, TokFLASHCARDS), 1)
         THEN SegmentQuestionBank(
                  StripHeading(Split(normalized, TokFLASHCARDS)[1]),
                  Split(normalized, TokFLASHCARDS)[2])
         ELSE Raised("IndexError")
    ELSE SegmentQuestionBank(Strip(normalized), <<>>)

\* lines 109-140
Segment(out) == SegmentFlashcards(Normalize(out))

----------------------------------------------------------------------------
(* Text extraction: extract_text, lines 15-39 *)

\* A document: its file name, whether its format library (PdfReader,
\* docx.Document, Presentation) or, for the fallback, file.read() succeeds
\* on it, and its units in order: the pages of a PDF (has = FALSE: a page
\* whose extract_text() is empty or None), the paragraphs of a DOCX, the
\* shapes of a PPTX (has = FALSE: a shape without a text attribute), the
\* byte runs of any other file (has = FALSE: a run that is not valid UTF-8).
Unit(h, t) == [has |-> h, text |-> t]

PdfGood  == [name |-> <<"a",".","p","d","f">>,  parses |-> TRUE,
             units |-> <<Unit(TRUE, <<"page1">>), Unit(FALSE, <<>>)>>]
PdfBad   == [name |-> <<"a",".","p","d","f">>,  parses |-> FALSE, units |-> <<>>]
DocxGood == [name |-> <<"b",".","d","o","c","x">>, parses |-> TRUE,
             units |-> <<Unit(TRUE, <<"para1">>), Unit(TRUE, <<"para2">>)>>]
DocxBad  == [name |-> <<"b",".","d","o","c","x">>, parses |-> FALSE, units |-> <<>>]
PptxGood == [name |-> <<"c",".","p","p","t","x">>, parses |-> TRUE,
             units |-> <<Unit(TRUE, <<"shape1">>), Unit(FALSE, <<"picture">>),
                         Unit(TRUE, <<"shape2">>)>>]
PptxBad  == [name |-> <<"c",".","p","p","t","x">>, parses |-> FALSE, units |-> <<>>]
TextGood == [name |-> <<"n",".","t","x","t">>,  parses |-> TRUE,
             units |-> <<Unit(TRUE, <<"notes">>), Unit(FALSE, <<"\\xff">>)>>]
TextBad  == [name |-> <<"n",".","t","x","t">>,  parses |-> FALSE, units |-> <<>>]

Docs == {PdfGood, PdfBad, DocxGood, DocxBad, PptxGood, PptxBad, TextGood, TextBad}

FileLists == UNION {[1..n -> Docs] : n \in 0..MaxFiles}

\* "\n".join(texts)
RECURSIVE JoinNl(_)
JoinNl(texts) ==
    IF texts = <<>> THEN <<>>
    ELSE IF Len(texts) = 1 THEN texts[1]
    ELSE texts[1] \o <<"\n">> \o JoinNl(Tail(texts))

\* the concatenation of a list of texts
RECURSIVE Concat(_)
Concat(texts) ==
    IF texts = <<>> THEN <<>> ELSE texts[1] \o Concat(Tail(texts))

\* the units that expose text, in order
RECURSIVE WithText(_)
WithText(units) ==
    IF units = <<>> THEN <<>>
    ELSE (IF units[1].has THEN <<units[1].text>> ELSE <<>>) \o WithText(Tail(units))

\* lines 15-39: the text returned, or the exception that escapes
ExtractText(file) ==
    IF EndsWith(file.name, <<".","p","d","f">>)
    THEN \* lines 18-20, no handler around PdfReader
         IF file.parses
         THEN [exc |-> "none",
               text |-> JoinNl([i \in 1..Len(file.units) |->
                          IF file.units[i].has THEN file.units[i].text ELSE <<>>])]
         ELSE [exc |-> "PdfReadError", text |-> <<>>]
    ELSE IF EndsWith(file.name, <<".","d","o","c","x">>)
    THEN \* lines 22-24, no handler around docx.Document
         IF file.parses
         THEN [exc |-> "none",
               text |-> JoinNl([i \in 1..Len(file.units) |-> file.units[i].text])]
         ELSE [exc |-> "PackageNotFoundError", text |-> <<>>]
    ELSE IF EndsWith(file.name, <<".","p","p","t","x">>)
    THEN \* lines 26-33, no handler around Presentation
         IF file.parses
         THEN [exc |-> "none", text |-> JoinNl(WithText(file.units))]
         ELSE [exc |-> "PackageNotFoundError", text |-> <<>>]
    ELSE \* lines 36-39
         IF file.parses
         THEN [exc |-> "none", text |-> Concat(WithText(file.units))]
         ELSE [exc |-> "none", text |-> <<>>]

\* lines 56-58: the corpus, or the exception of the first file that raises
RECURSIVE BuildCorpus(_)
BuildCorpus(fs) ==
    IF fs = <<>> THEN [exc |-> "none", text |-> <<>>]
    ELSE LET e == ExtractText(fs[1])
             r == BuildCorpus(Tail(fs))
         IN  IF e.exc # "none" THEN [exc |-> e.exc, text |-> <<>>]
             ELSE IF r.exc # "none" THEN r
             ELSE [exc |-> "none", text |-> e.text \o <<"\n", "\n">> \o r.text]

----------------------------------------------------------------------------
(* Inputs *)

\* the response of the worked example
ExampleResponse ==
    <<"P","R","A","A","C","H","I","-","G","U","I","D","E"," ","T","E","X","T","B","O","O","K",":","\n","H","e","l","l","o","\n","F","L","A","S","H","C","A","R","D","S","\n","Q",":"," ","x","\n","A",":"," ","y","\n","Q","U","E","S","T","I","O","N"," ","B","A","N","K","\n","M","C","Q","1","\n","E","X","A","M"," ","T","E","M","P","L","A","T","E","\n","F","i","n","a","l">>

\* the pieces raw responses are assembled from
Pieces == {TokTEXTBOOK, TokFLASHCARDS, VarFlashcards, TokQUESTIONBANK,
           VarQuestionBank, TokEXAMTEMPLATE, VarExamTemplate,
           <<":">>, <<" ">>, <<"\n">>, <<"\f">>, <<"a">>, <<"b">>}

\* every response of at most n pieces
ResponsesUpTo(n) == {Concat(p) : p \in UNION {[1..k -> Pieces] : k \in 0..n}}

Responses == ResponsesUpTo(MaxPieces) \cup {ExampleResponse}

SubjectNames == {<<>>, <<"Biology">>}
ExamInstructionses == {<<>>, <<"open book">>}
Answers == {<<>>, <<"1. B  2. C">>}

\* what the completion service does with one request: it answers, or fails
Answer(content) == [kind |-> "answer", content |-> content]
Failure == [kind |-> "failure", content |-> <<>>]
NotCalled == [kind |-> "none", content |-> <<>>]
GenerateReplies == {Failure, Answer(<<>>), Answer(ExampleResponse)}
SegmentReplies == {Answer(o) : o \in Responses}
GradeReplies == {Failure, Answer(<<"Score: 80 FLASHCARDS good">>)}

----------------------------------------------------------------------------
(* The handlers.  A handler runs from the click to the completion call,    *)
(* waits there, and runs on when the service answers or fails; the other   *)
(* handler may run meanwhile.  Each button can be clicked again and again; *)
(* one call per handler is in flight at a time.                            *)

DefaultSubject == <<"My Course">>
NoFilesMsg == <<"Please upload at least one syllabus / slide / PDF to generate a study pack.">>
NoAnswersMsg == <<"Please paste your exam answers before submitting.">>

NoPrompt == [kind |-> "none"]
\* lines 60-97
GeneratePrompt(subject, corpus, instructions) ==
    [kind |-> "generate", subject |-> subject, corpus |-> corpus,
     instructions |-> instructions]
\* lines 150-164
GradePrompt(exam, answers) ==
    [kind |-> "grade", exam_text |-> exam, user_answers |-> answers]

\* an upload list that is never taken for empty
NoFilesNever(fs) == FALSE

\* line 51: not files
NoFiles(fs) == fs = <<>>

\* answers that are never taken for empty
NoAnswersNever(ua) == FALSE

\* line 147: not user_answers
NoAnswers(ua) == ua = <<>>

\* line 47-48
SubjectOrDefault(sn) == IF sn = <<>> THEN DefaultSubject ELSE sn

\* generate_all, lines 45-102: from the call to the completion request
GenerateAllCall(fs, sn, ei) ==
  LET corpus == BuildCorpus(fs) IN
    /\ files' = fs
    /\ subject_name' = sn
    /\ exam_instructions' = ei
    /\ output' = <<>>
    /\ genReply' = NotCalled
    /\ IF NoFiles(fs)
       THEN \* lines 51-53
            /\ genPc' = "idle"
            /\ full_corpus' = <<>>
            /\ genPrompt' = NoPrompt
            /\ genCalls' = 0
            /\ genOutcome' = "returned"
            /\ genExc' = "none"
            /\ textbook_box' = NoFilesMsg
            /\ flashcard_box' = <<>>
            /\ question_box' = <<>>
            /\ exam_box' = <<>>
       ELSE IF corpus.exc # "none"
       THEN \* an extractor raised inside the loop of lines 57-58
            /\ genPc' = "idle"
            /\ full_corpus' = <<>>
            /\ genPrompt' = NoPrompt
            /\ genCalls' = 0
            /\ genOutcome' = "raised"
            /\ genExc' = corpus.exc
            /\ UNCHANGED genBoxes
       ELSE \* lines 60-102: the request is sent
            /\ genPc' = "waiting"
            /\ full_corpus' = corpus.text
            /\ genPrompt' = GeneratePrompt(SubjectOrDefault(sn), corpus.text, ei)
            /\ genCalls' = 1
            /\ genOutcome' = "none"
            /\ genExc' = "none"
            /\ UNCHANGED genBoxes

\* generate_all, lines 99-140: the completion call ends with r
GenerateAllResume(r) ==
  LET seg == Segment(r.content) IN
    /\ genPc' = "idle"
    /\ genReply' = r
    /\ IF r.kind = "failure"
       THEN \* lines 99-102 raised
            /\ output' = <<>>
            /\ genOutcome' = "raised"
            /\ genExc' = "GatewayError"
            /\ UNCHANGED genBoxes
       ELSE /\ output' = r.content
            /\ IF seg.exc # "none"
               THEN /\ genOutcome' = "raised"
                    /\ genExc' = seg.exc
                    /\ UNCHANGED genBoxes
               ELSE /\ genOutcome' = "returned"
                    /\ genExc' = "none"
                    /\ textbook_box' = seg.textbook
                    /\ flashcard_box' = seg.flashcards
                    /\ question_box' = seg.question_bank
                    /\ exam_box' = seg.exam
    /\ UNCHANGED <<files, subject_name, exam_instructions, full_corpus,
                   genPrompt, genCalls>>

\* the "Generate Study Pack" button, lines 204-208
GenerateAll ==
    /\ genPc = "idle"
    /\ \E fs \in FileLists, sn \in SubjectNames, ei \in ExamInstructionses :
            GenerateAllCall(fs, sn, ei)
    /\ UNCHANGED <<gradeVars, grade_output>>

\* the completion service ends the request of generate_all
GenerateAllReturn ==
    /\ genPc = "waiting"
    /\ \E r \in GenerateReplies : GenerateAllResume(r)
    /\ UNCHANGED <<gradeVars, grade_output>>

\* grade_exam, lines 146-169: from the call to the completion request
GradeExamCall(ua, et) ==
    /\ user_answers' = ua
    /\ exam_text' = et
    /\ gradeReply' = NotCalled
    /\ IF NoAnswers(ua)
       THEN \* lines 147-148
            /\ gradePc' = "idle"
            /\ gradePrompt' = NoPrompt
            /\ gradeCalls' = 0
            /\ gradeOutcome' = "returned"
            /\ gradeExc' = "none"
            /\ grade_output' = NoAnswersMsg
       ELSE /\ gradePc' = "waiting"
            /\ gradePrompt' = GradePrompt(et, ua)
            /\ gradeCalls' = 1
            /\ gradeOutcome' = "none"
            /\ gradeExc' = "none"
            /\ UNCHANGED grade_output

\* grade_exam, lines 166-171: the completion call ends with r
GradeExamResume(r) ==
    /\ gradePc' = "idle"
    /\ gradeReply' = r
    /\ IF r.kind = "failure"
       THEN /\ gradeOutcome' = "raised"
            /\ gradeExc' = "GatewayError"
            /\ UNCHANGED grade_output
       ELSE /\ gradeOutcome' = "returned"
            /\ gradeExc' = "none"
            /\ grade_output' = r.content
    /\ UNCHANGED <<user_answers, exam_text, gradePrompt, gradeCalls>>

\* the "Submit Exam for Feedback" button, lines 210-214
GradeExam ==
    /\ gradePc = "idle"
    /\ \E ua \in Answers : GradeExamCall(ua, exam_box)
    /\ UNCHANGED <<genVars, genBoxes>>

\* the completion service ends the request of grade_exam
GradeExamReturn ==
    /\ gradePc = "waiting"
    /\ \E r \in GradeReplies : GradeExamResume(r)
    /\ UNCHANGED <<genVars, genBoxes>>

\* lines 104-140 on every bounded response: the completion service answers
\* the request of generate_all
SegmentOutput ==
    /\ genPc = "waiting"
    /\ \E r \in SegmentReplies : GenerateAllResume(r)
    /\ UNCHANGED <<gradeVars, grade_output>>

----------------------------------------------------------------------------
(* Specifications *)

\* no grade_exam call yet, the feedback component empty
GradeInit ==
    /\ gradePc = "idle"
    /\ user_answers = <<>>
    /\ exam_text = <<>>
    /\ gradePrompt = NoPrompt
    /\ gradeOutcome = "none"
    /\ gradeExc = "none"
    /\ gradeReply = NotCalled
    /\ gradeCalls = 0
    /\ grade_output = <<>>

\* the application after launch: nothing uploaded, every component empty
Init ==
    /\ genPc = "idle"
    /\ files = <<>>
    /\ subject_name = <<>>
    /\ exam_instructions = <<>>
    /\ full_corpus = <<>>
    /\ genPrompt = NoPrompt
    /\ output = <<>>
    /\ genOutcome = "none"
    /\ genExc = "none"
    /\ genReply = NotCalled
    /\ genCalls = 0
    /\ textbook_box = <<>>
    /\ flashcard_box = <<>>
    /\ question_box = <<>>
    /\ exam_box = <<>>
    /\ GradeInit

Next == GenerateAll \/ GenerateAllReturn \/ GradeExam \/ GradeExamReturn

Spec == Init /\ [][Next]_vars

\* generate_all blocked at line 99 in the first call after launch: one
\* readable file was uploaded, the request is sent
SegInit ==
    /\ genPc = "waiting"
    /\ files = <<TextGood>>
    /\ subject_name = <<>>
    /\ exam_instructions = <<>>
    /\ full_corpus = BuildCorpus(<<TextGood>>).text
    /\ genPrompt = GeneratePrompt(DefaultSubject, BuildCorpus(<<TextGood>>).text, <<>>)
    /\ output = <<>>
    /\ genOutcome = "none"
    /\ genExc = "none"
    /\ genReply = NotCalled
    /\ genCalls = 1
    /\ textbook_box = <<>>
    /\ flashcard_box = <<>>
    /\ question_box = <<>>
    /\ exam_box = <<>>
    /\ GradeInit

SegNext == SegmentOutput

SegSpec == SegInit /\ [][SegNext]_vars

TypeOK ==
    /\ genPc \in {"idle", "waiting"}
    /\ gradePc \in {"idle", "waiting"}
    /\ genOutcome \in {"none", "returned", "raised"}
    /\ gradeOutcome \in {"none", "returned", "raised"}
    /\ genReply.kind \in {"none", "answer", "failure"}
    /\ gradeReply.kind \in {"none", "answer", "failure"}
    /\ genCalls \in {0, 1}
    /\ gradeCalls \in {0, 1}

----------------------------------------------------------------------------
(* Vocabulary of the properties *)

\* the last generate_all call got its response and lines 104-140 ran on it
SegRan ==
    /\ genPc = "idle"
    /\ genReply.kind = "answer"

\* the last generate_all call has ended
GenEnded == genPc = "idle" /\ genOutcome # "none"

\* the last grade_exam call has ended
GradeEnded == gradePc = "idle" /\ gradeOutcome # "none"

\* sub occurs in s as a contiguous run
Occurs(s, sub) == sub = <<>> \/ Contains(s, sub)

\* a can be obtained from b by deleting characters only
RECURSIVE IsSubsequence(_, _)
IsSubsequence(a, b) ==
    IF a = <<>> THEN TRUE
    ELSE IF b = <<>> THEN FALSE
    ELSE IF a[1] = b[1] THEN IsSubsequence(Tail(a), Tail(b))
    ELSE IsSubsequence(a, Tail(b))

\* s without its whitespace
RECURSIVE NoSpace(_)
NoSpace(s) ==
    IF s = <<>> THEN <<>>
    ELSE (IF s[1] \in Whitespace THEN <<>> ELSE <<s[1]>>) \o NoSpace(Tail(s))

\* s without any heading token, canonical or variant, and without whitespace
ContentOf(s) ==
    NoSpace(Replace(Replace(Replace(Replace(Replace(Replace(Replace(s,
        TokTEXTBOOK, <<>>), TokFLASHCARDS, <<>>), VarFlashcards, <<>>),
        TokQUESTIONBANK, <<>>), VarQuestionBank, <<>>),
        TokEXAMTEMPLATE, <<>>), VarExamTemplate, <<>>))

\* the text before and after the first occurrence of tok (tok occurs in s)
BeforeFirst(s, tok) == SubSeq(s, 1, Find(s, tok) - 1)
AfterFirst(s, tok) == SubSeq(s, Find(s, tok) + Len(tok), Len(s))

\* s without tok when s begins with tok
DropLeading(s, tok) ==
    IF Len(s) >= Len(tok) /\ SubSeq(s, 1, Len(tok)) = tok
    THEN SubSeq(s, Len(tok) + 1, Len(s)) ELSE s

\* the corpus in which every document holds its position and an unreadable
\* one contributes the empty fragment
RECURSIVE DegradedCorpus(_)
DegradedCorpus(fs) ==
    IF fs = <<>> THEN <<>>
    ELSE (IF fs[1].parses THEN ExtractText(fs[1]).text ELSE <<>>)
         \o <<"\n", "\n">> \o DegradedCorpus(Tail(fs))

ExampleTextbook == <<"H","e","l","l","o">>
ExampleFlashcards == <<"Q",":"," ","x","\n","A",":"," ","y">>
ExampleQuestionBank == <<"M","C","Q","1">>
ExampleExam == <<"F","i","n","a","l">>

----------------------------------------------------------------------------
(* Properties *)

\* C1: segmenting the example response yields textbook "Hello", flashcards
\* "Q: x\nA: y", questionBank "MCQ1", exam "Final": neither the heading token
\* nor its trailing colon is in textbook.
C1_ExampleSegmentation ==
    (SegRan /\ output = ExampleResponse) =>
        /\ genOutcome = "returned"
        /\ textbook_box = ExampleTextbook
        /\ flashcard_box = ExampleFlashcards
        /\ question_box = ExampleQuestionBank
        /\ exam_box = ExampleExam

\* C2: the four fields in order reproduce the raw response with only marker
\* tokens and whitespace removed: no character is changed or duplicated (the
\* concatenation is obtained from the response by deletions) and no content
\* character is dropped (both have the same content).
C2_FieldsReproduceResponse ==
    (SegRan /\ genOutcome = "returned") =>
        LET fields == textbook_box \o flashcard_box \o question_box \o exam_box
        IN  /\ IsSubsequence(fields, output)
            /\ ContentOf(fields) = ContentOf(output)

\* C3: a response without the FLASHCARDS marker in either heading variant
\* gives textbook = the whole response trimmed and three empty fields, also
\* when the response holds the text of a later marker.
C3_NoFlashcardsAllTextbook ==
    (SegRan /\ ~Contains(output, TokFLASHCARDS) /\ ~Contains(output, VarFlashcards)) =>
        /\ genOutcome = "returned"
        /\ textbook_box = Strip(output)
        /\ flashcard_box = <<>>
        /\ question_box = <<>>
        /\ exam_box = <<>>

\* C4: segmentation is total: on every response it returns four strings and
\* raises nothing, and on the empty response the four fields are empty.
C4_SegmentationTotal ==
    SegRan =>
        /\ genOutcome = "returned"
        /\ genExc = "none"
        /\ \A box \in {textbook_box, flashcard_box, question_box, exam_box} :
              box \in Seq(STRING)
        /\ output = <<>> =>
              /\ textbook_box = <<>>
              /\ flashcard_box = <<>>
              /\ question_box = <<>>
              /\ exam_box = <<>>

C4_Witness ==
    /\ SegRan
    /\ output = <<>>
    /\ genOutcome = "returned"
    /\ textbook_box = <<>>
    /\ exam_box = <<>>

\* C5: a document its extractor cannot parse contributes the empty fragment
\* and two newlines at its position and never aborts generate_all: the other
\* documents are extracted in order and the completion service is called.
C5_UnreadableDocumentDegrades ==
    (GenEnded /\ files # <<>>) =>
        /\ genExc \in {"none", "GatewayError"}
        /\ genCalls = 1
        /\ full_corpus = DegradedCorpus(files)

\* C6 as stated: an empty document list is signalled as EmptyInputError, not
\* returned as an ordinary four-field result, and the completion service is
\* not called.
C6_EmptyInputError ==
    (GenEnded /\ files = <<>>) =>
        /\ genOutcome = "raised"
        /\ genExc = "EmptyInputError"
        /\ genCalls = 0

\* C6 as amended: with an empty document list generate_all raises nothing and
\* returns the four-field result whose textbook is the fixed message and whose
\* other fields are empty; no prompt is built and the completion service is
\* not called.
C6_EmptyInputMessage ==
    (GenEnded /\ files = <<>>) =>
        /\ genOutcome = "returned"
        /\ genExc = "none"
        /\ textbook_box = NoFilesMsg
        /\ flashcard_box = <<>>
        /\ question_box = <<>>
        /\ exam_box = <<>>
        /\ full_corpus = <<>>
        /\ genPrompt = NoPrompt
        /\ genReply = NotCalled
        /\ genCalls = 0

C6_Witness ==
    /\ GenEnded
    /\ files = <<>>
    /\ textbook_box = NoFilesMsg
    /\ genCalls = 0

\* C7: grade_exam with empty answers, whatever the exam text, never calls the
\* completion service and returns the fixed message; with answers it calls
\* the service exactly once and returns the service's response unmodified.
C7_GradeShortCircuit ==
    /\ (gradePc = "waiting" \/ gradeCalls # 0) => user_answers # <<>>
    /\ (GradeEnded /\ user_answers = <<>>) =>
          /\ gradeCalls = 0
          /\ gradeReply = NotCalled
          /\ gradeOutcome = "returned"
          /\ grade_output = NoAnswersMsg
    /\ (GradeEnded /\ user_answers # <<>>) =>
          /\ gradeCalls = 1
          /\ gradePrompt = GradePrompt(exam_text, user_answers)
          /\ gradeReply.kind = "answer" =>
                (gradeOutcome = "returned" /\ grade_output = gradeReply.content)
          /\ gradeReply.kind = "failure" => gradeOutcome = "raised"

C7_Witness ==
    /\ GradeEnded
    /\ user_answers = <<>>
    /\ exam_text # <<>>
    /\ gradeCalls = 0
    /\ grade_output = NoAnswersMsg

\* C8: normalization rewrites section headings only: the text of every
\* returned field stands character for character in the response (textbook:
\* in the response once the textbook heading token is taken out).
C8_OnlyHeadingsRewritten ==
    (SegRan /\ genOutcome = "returned") =>
        /\ Occurs(output, flashcard_box)
        /\ Occurs(output, question_box)
        /\ Occurs(output, exam_box)
        /\ \/ Occurs(output, textbook_box)
           \/ Occurs(Replace(output, TokTEXTBOOK, <<>>), textbook_box)

\* C9: when the FLASHCARDS marker is found, textbook is the trimmed text
\* before its first occurrence, with the textbook heading token removed only
\* where it stands at the very start (leading whitespace aside): later
\* occurrences are kept.
C9_LeadingHeadingOnly ==
    (SegRan /\ genOutcome = "returned" /\ Contains(Normalize(output), TokFLASHCARDS)) =>
        textbook_box =
            Strip(DropLeading(Strip(BeforeFirst(Normalize(output), TokFLASHCARDS)),
                              TokTEXTBOOK))

\* C10: markers are searched in the fixed order FLASHCARDS, QUESTION BANK,
\* EXAM TEMPLATE, each at its first occurrence in the current remainder and
\* without backtracking: a later marker standing before the first FLASHCARDS
\* stays in textbook, an EXAM TEMPLATE standing before the first QUESTION
\* BANK of the remainder stays in flashcards, and without QUESTION BANK in
\* the remainder questionBank and exam are empty.
C10_FixedOrderFirstMatch ==
    (SegRan /\ genOutcome = "returned") =>
        LET n    == Normalize(output)
            has1 == Contains(n, TokFLASHCARDS)
            head == IF has1 THEN BeforeFirst(n, TokFLASHCARDS) ELSE n
            rest == IF has1 THEN AfterFirst(n, TokFLASHCARDS) ELSE <<>>
            has2 == Contains(rest, TokQUESTIONBANK)
            mid  == IF has2 THEN BeforeFirst(rest, TokQUESTIONBANK) ELSE rest
            rest2 == IF has2 THEN AfterFirst(rest, TokQUESTIONBANK) ELSE <<>>
            has3 == Contains(rest2, TokEXAMTEMPLATE)
        IN  /\ \A tok \in {TokQUESTIONBANK, TokEXAMTEMPLATE} :
                  Contains(head, tok) => Contains(textbook_box, tok)
            /\ flashcard_box = Strip(mid)
            /\ Contains(mid, TokEXAMTEMPLATE) => Contains(flashcard_box, TokEXAMTEMPLATE)
            /\ ~has2 => (question_box = <<>> /\ exam_box = <<>>)
            /\ has2 =>
                  /\ question_box =
                        Strip(IF has3 THEN BeforeFirst(rest2, TokEXAMTEMPLATE) ELSE rest2)
                  /\ exam_box =
                        (IF has3 THEN Strip(AfterFirst(rest2, TokEXAMTEMPLATE)) ELSE <<>>)

C10_Witness ==
    /\ SegRan
    /\ genOutcome = "returned"
    /\ output = TokQUESTIONBANK \o TokFLASHCARDS \o TokEXAMTEMPLATE
    /\ textbook_box = TokQUESTIONBANK
    /\ flashcard_box = TokEXAMTEMPLATE
    /\ question_box = <<>>
    /\ exam_box = <<>>

====
